---------------------------- MODULE Spec2Model ----------------------------
(***************************************************************************)
(* Model of scripts/generate_modern_walk.py: the device catalog, the MIB   *)
(* section generators, the walk assembler with its file write, and main(). *)
(*                                                                         *)
(* Text is modelled as a sequence of pieces.  A piece is a literal span of *)
(* an f-string, a formatted integer, a dotted OID, a line break, the       *)
(* title-cased vendor or the timestamp.  A line (one entry of `lines`) is  *)
(* a sequence of pieces; the file content is the sequence of pieces that   *)
(* '\n'.join(lines) followed by '\n' produces.  A Python dict is a         *)
(* sequence of key/val records, which keeps its insertion order.           *)
(***************************************************************************)
EXTENDS Integers, Sequences, FiniteSets

\* ------------------------------------------------------------------ bounds

\* Largest port count of a generated (non-catalog) descriptor.
MaxPorts == 3

\* Longest uplink list of a generated (non-catalog) descriptor.
MaxUplinks == 2

\* ------------------------------------------------------------------ pieces

Lit(s) == [t |-> "lit", s |-> s, n |-> 0, o |-> <<>>]
Num(n) == [t |-> "num", s |-> "", n |-> n, o |-> <<>>]
Oid(o) == [t |-> "oid", s |-> "", n |-> 0, o |-> o]
Title(s) == [t |-> "title", s |-> s, n |-> 0, o |-> <<>>]
Stamp == [t |-> "time", s |-> "%Y-%m-%d %H:%M:%S", n |-> 0, o |-> <<>>]
NL == [t |-> "nl", s |-> "", n |-> 0, o |-> <<>>]

\* f"{oid} = {tag}: {value}"
OidLine(oid, tag, value) == <<Oid(oid), Lit(" = "), Lit(tag), Lit(": ")>> \o value

\* f"# {text...}": the '#' is a piece of its own, so "starts with '#'" is testable.
CommentLine(rest) == <<Lit("#")>> \o rest

\* ------------------------------------------------------------------ dicts

Keys(d) == [k \in 1..Len(d) |-> d[k].key]
Has(d, key) == \E k \in 1..Len(d) : d[k].key = key
Get(d, key) == d[CHOOSE k \in 1..Len(d) : d[k].key = key].val

\* device_info.get('uplinks', [])
GetUplinks(device_info) ==
  IF "uplinks" \in DOMAIN device_info THEN device_info.uplinks ELSE <<>>

\* ----------------------------------------------------------------- catalog

DEVICE_TEMPLATES ==
  <<
    [key |-> "cisco", val |-> <<
       [key |-> "c3850-48p", val |->
          [model |-> "WS-C3850-48P",
           description |-> "Cisco IOS Software, C3850 Software (C3850-UNIVERSALK9-M), Version 16.12.4, RELEASE SOFTWARE (fc5)",
           ports |-> 48, stacking |-> TRUE, poe |-> TRUE,
           uplinks |-> << "TenGigabitEthernet1/1/1", "TenGigabitEthernet1/1/2", "TenGigabitEthernet1/1/3", "TenGigabitEthernet1/1/4" >>]],
       [key |-> "c3650-48p", val |->
          [model |-> "WS-C3650-48PD",
           description |-> "Cisco IOS Software, C3650 Software (C3650-UNIVERSALK9-M), Version 16.12.4, RELEASE SOFTWARE (fc5)",
           ports |-> 48, stacking |-> TRUE, poe |-> TRUE,
           uplinks |-> << "TenGigabitEthernet1/1/1", "TenGigabitEthernet1/1/2" >>]],
       [key |-> "c9300-48p", val |->
          [model |-> "C9300-48P",
           description |-> "Cisco IOS Software [Gibraltar], Catalyst L3 Switch Software (CAT9K_IOSXE), Version 17.6.3, RELEASE SOFTWARE (fc4)",
           ports |-> 48, stacking |-> TRUE, poe |-> TRUE,
           uplinks |-> << "TenGigabitEthernet1/1/1", "TenGigabitEthernet1/1/2", "TenGigabitEthernet1/1/3", "TenGigabitEthernet1/1/4" >>]],
       [key |-> "n9k-c9300", val |->
          [model |-> "N9K-C9300",
           description |-> "Cisco Nexus Operating System (NX-OS) Software, Version 9.3(8)",
           ports |-> 32, stacking |-> FALSE, poe |-> FALSE,
           uplinks |-> << "Ethernet1/1", "Ethernet1/2", "Ethernet1/3", "Ethernet1/4" >>]] >>],
    [key |-> "juniper", val |-> <<
       [key |-> "ex4300-48p", val |->
          [model |-> "EX4300-48P",
           description |-> "Juniper Networks, Inc. ex4300-48p Ethernet Switch, kernel JUNOS 20.4R3.8, Build date: 2021-10-15",
           ports |-> 48, stacking |-> TRUE, poe |-> TRUE,
           uplinks |-> << "ge-0/1/0", "ge-0/1/1", "ge-0/1/2", "ge-0/1/3" >>]],
       [key |-> "qfx5100-48s", val |->
          [model |-> "QFX5100-48S",
           description |-> "Juniper Networks, Inc. qfx5100-48s-6q Ethernet Switch, kernel JUNOS 20.4R3.8",
           ports |-> 48, stacking |-> FALSE, poe |-> FALSE,
           uplinks |-> << "et-0/0/48", "et-0/0/49", "et-0/0/50", "et-0/0/51" >>]] >>],
    [key |-> "aruba", val |-> <<
       [key |-> "cx6300-48g", val |->
          [model |-> "JL762A",
           description |-> "Aruba CX 6300 48G 4SFP56 Switch, ArubaOS-CX FL.10.10.1010",
           ports |-> 48, stacking |-> TRUE, poe |-> FALSE,
           uplinks |-> << "1/1/49", "1/1/50", "1/1/51", "1/1/52" >>]],
       [key |-> "cx8360-48y8c", val |->
          [model |-> "JL706A",
           description |-> "Aruba CX 8360-48Y8C Switch, ArubaOS-CX FL.10.10.1010",
           ports |-> 48, stacking |-> FALSE, poe |-> FALSE,
           uplinks |-> << "1/1/49", "1/1/50", "1/1/51", "1/1/52" >>]] >>],
    [key |-> "extreme", val |-> <<
       [key |-> "x465-48w", val |->
          [model |-> "X465-48W",
           description |-> "ExtremeXOS (X465-48W) version 32.3.1.4 by release-manager on Thu Nov  4 19:18:03 EDT 2021",
           ports |-> 48, stacking |-> TRUE, poe |-> TRUE,
           uplinks |-> << "1:49", "1:50", "1:51", "1:52" >>]] >>],
    [key |-> "paloalto", val |-> <<
       [key |-> "pa-440", val |->
          [model |-> "PA-440",
           description |-> "Palo Alto Networks PA-440 firewall, PAN-OS 10.2.3",
           ports |-> 8, stacking |-> FALSE, poe |-> FALSE,
           uplinks |-> << "ethernet1/1", "ethernet1/2" >>]] >>],
    [key |-> "hpe", val |-> <<
       [key |-> "aruba-2930f-48g", val |->
          [model |-> "JL262A",
           description |-> "HPE Aruba 2930F 48G 4SFP+ Switch, FL.16.11.0009",
           ports |-> 48, stacking |-> TRUE, poe |-> FALSE,
           uplinks |-> << "1/49", "1/50", "1/51", "1/52" >>]],
       [key |-> "aruba-6300m-48g", val |->
          [model |-> "JL659A",
           description |-> "HPE Aruba CX 6300M 48G Class 4 PoE 4SFP56 Switch, ArubaOS-CX FL.10.11.1020",
           ports |-> 48, stacking |-> TRUE, poe |-> TRUE,
           uplinks |-> << "1/1/49", "1/1/50", "1/1/51", "1/1/52" >>]] >>],
    [key |-> "arista", val |-> <<
       [key |-> "7050sx3-48yc12", val |->
          [model |-> "7050SX3-48YC12",
           description |-> "Arista Networks EOS version 4.28.3M",
           ports |-> 48, stacking |-> FALSE, poe |-> FALSE,
           uplinks |-> << "Ethernet49/1", "Ethernet50/1", "Ethernet51/1", "Ethernet52/1" >>]],
       [key |-> "7280sr3-48yc8", val |->
          [model |-> "7280SR3-48YC8",
           description |-> "Arista Networks EOS version 4.28.3M",
           ports |-> 48, stacking |-> FALSE, poe |-> FALSE,
           uplinks |-> << "Ethernet49/1", "Ethernet50/1", "Ethernet51/1", "Ethernet52/1" >>]] >>],
    [key |-> "dell", val |-> <<
       [key |-> "n3248te-on", val |->
          [model |-> "N3248TE-ON",
           description |-> "Dell EMC Networking N3248TE-ON, OS10 Enterprise 10.5.3.4",
           ports |-> 48, stacking |-> TRUE, poe |-> TRUE,
           uplinks |-> << "ethernet1/1/49", "ethernet1/1/50", "ethernet1/1/51", "ethernet1/1/52" >>]],
       [key |-> "s5248f-on", val |->
          [model |-> "S5248F-ON",
           description |-> "Dell EMC Networking S5248F-ON, OS10 Enterprise 10.5.3.4",
           ports |-> 48, stacking |-> TRUE, poe |-> FALSE,
           uplinks |-> << "ethernet1/1/49", "ethernet1/1/50", "ethernet1/1/51", "ethernet1/1/52" >>]] >>],
    [key |-> "fortinet", val |-> <<
       [key |-> "fs-448e-fpoe", val |->
          [model |-> "FS-448E-FPOE",
           description |-> "FortiSwitch-448E-FPOE v7.2.3,build0517,221201 (GA)",
           ports |-> 48, stacking |-> TRUE, poe |-> TRUE,
           uplinks |-> << "port49", "port50", "port51", "port52" >>]],
       [key |-> "fs-548d-fpoe", val |->
          [model |-> "FS-548D-FPOE",
           description |-> "FortiSwitch-548D-FPOE v7.2.3,build0517,221201 (GA)",
           ports |-> 48, stacking |-> TRUE, poe |-> TRUE,
           uplinks |-> << "port49", "port50", "port51", "port52" >>]] >>],
    [key |-> "meraki", val |-> <<
       [key |-> "ms390-48uxb", val |->
          [model |-> "MS390-48UXB",
           description |-> "Cisco Meraki MS390-48UXB Cloud-Managed Aggregation Switch, firmware 15.21",
           ports |-> 48, stacking |-> TRUE, poe |-> TRUE,
           uplinks |-> << "Port49", "Port50", "Port51", "Port52" >>]],
       [key |-> "ms425-48", val |->
          [model |-> "MS425-48",
           description |-> "Cisco Meraki MS425-48 Cloud-Managed Aggregation Switch, firmware 15.21",
           ports |-> 48, stacking |-> TRUE, poe |-> FALSE,
           uplinks |-> << "Port49", "Port50", "Port51", "Port52" >>]] >>]
  >>

\* ------------------------------------------------------ section generators

MIB2 == <<1, 3, 6, 1, 2, 1>>
IfEntry == MIB2 \o <<2, 2, 1>>
CiscoEnt == <<1, 3, 6, 1, 4, 1, 9, 9>>
JuniperEnt == <<1, 3, 6, 1, 4, 1, 2636, 3, 1>>

generate_system_mib(device_info, hostname) ==
  << OidLine(MIB2 \o <<1, 1, 0>>, "STRING", <<Lit(device_info.description)>>),
     OidLine(MIB2 \o <<1, 2, 0>>, "OID", <<Oid(<<1, 3, 6, 1, 4, 1, 9, 1, 1719>>)>>),
     OidLine(MIB2 \o <<1, 3, 0>>, "Timeticks", <<Lit("(123456789) 14 days, 6:56:07.89")>>),
     OidLine(MIB2 \o <<1, 4, 0>>, "STRING", <<Lit("Network Administrator")>>),
     OidLine(MIB2 \o <<1, 5, 0>>, "STRING", hostname),
     OidLine(MIB2 \o <<1, 6, 0>>, "STRING", <<Lit("NiAC-Go Simulated Device")>>),
     OidLine(MIB2 \o <<1, 7, 0>>, "INTEGER", <<Lit("78")>>) >>

\* Mutant of TotalIfs: the management interface is not counted.
TotalIfs_NoMgmt(device_info) == device_info.ports + Len(GetUplinks(device_info))

\* total_ifs = num_ports + len(device_info.get('uplinks', [])) + 1
TotalIfs(device_info) == device_info.ports + Len(GetUplinks(device_info)) + 1

\* lines.append(f".1.3.6.1.2.1.2.1.0 = INTEGER: {total_ifs}")
IfNumberLine(total_ifs) == OidLine(MIB2 \o <<2, 1, 0>>, "INTEGER", <<Num(total_ifs)>>)

\* The four rows after ifIndex: ifDescr, ifType, ifSpeed, ifOperStatus.
IfAttrRows(i, descr, type, speed) ==
  << OidLine(IfEntry \o <<2, i>>, "STRING", descr),
     OidLine(IfEntry \o <<3, i>>, "INTEGER", <<Lit(type)>>),
     OidLine(IfEntry \o <<5, i>>, "Gauge32", <<Lit(speed)>>),
     OidLine(IfEntry \o <<8, i>>, "INTEGER", <<Lit("1")>>) >>

\* Mutant of IfRows: the uplink names are taken from the end of the list.
IfRows_UplinksReversed(device_info, i) ==
  LET num_ports == device_info.ports
      uplink_idx == i - num_ports - 1
  IN  << OidLine(IfEntry \o <<1, i>>, "INTEGER", <<Num(i)>>) >> \o
      ( IF i <= num_ports
          THEN IfAttrRows(i, <<Lit("GigabitEthernet1/0/"), Num(i)>>, "6", "1000000000")
        ELSE IF i <= num_ports + Len(GetUplinks(device_info))
          THEN IfAttrRows(i, <<Lit(device_info.uplinks[Len(device_info.uplinks) - uplink_idx])>>,
                          "6", "10000000000")
        ELSE IfAttrRows(i, <<Lit("Vlan1")>>, "53", "1000000000") )

\* One iteration of the loop over range(1, total_ifs + 1).
IfRows(device_info, i) ==
  LET num_ports == device_info.ports
      uplink_idx == i - num_ports - 1
  IN  << OidLine(IfEntry \o <<1, i>>, "INTEGER", <<Num(i)>>) >> \o
      ( IF i <= num_ports
          THEN IfAttrRows(i, <<Lit("GigabitEthernet1/0/"), Num(i)>>, "6", "1000000000")
        ELSE IF i <= num_ports + Len(GetUplinks(device_info))
          THEN IfAttrRows(i, <<Lit(device_info.uplinks[uplink_idx + 1])>>, "6", "10000000000")
        ELSE IfAttrRows(i, <<Lit("Vlan1")>>, "53", "1000000000") )

\* The rows the loop appends for i = a..b, in order (split in halves to keep
\* the evaluation shallow).
RECURSIVE IfRowsRange(_, _, _)
IfRowsRange(device_info, a, b) ==
  IF a > b THEN <<>>
  ELSE IF a = b THEN IfRows(device_info, a)
  ELSE LET m == (a + b) \div 2
       IN  IfRowsRange(device_info, a, m) \o IfRowsRange(device_info, m + 1, b)

generate_interface_mib(device_info) ==
  <<IfNumberLine(TotalIfs(device_info))>> \o IfRowsRange(device_info, 1, TotalIfs(device_info))

generate_cisco_enterprise_mib(device_info) ==
  << OidLine(CiscoEnt \o <<13, 1, 3, 1, 3, 1>>, "STRING", <<Lit(device_info.model)>>),
     OidLine(CiscoEnt \o <<13, 1, 3, 1, 5, 1>>, "STRING", <<Lit("Chassis")>>),
     OidLine(CiscoEnt \o <<13, 1, 3, 1, 11, 1>>, "STRING", <<Lit("FOCCXXXXXXX")>>),
     OidLine(CiscoEnt \o <<109, 1, 1, 1, 1, 3, 1>>, "Gauge32", <<Lit("5")>>),
     OidLine(CiscoEnt \o <<109, 1, 1, 1, 1, 4, 1>>, "Gauge32", <<Lit("8")>>),
     OidLine(CiscoEnt \o <<109, 1, 1, 1, 1, 5, 1>>, "Gauge32", <<Lit("10")>>),
     OidLine(CiscoEnt \o <<48, 1, 1, 1, 5, 1>>, "INTEGER", <<Lit("4194304000")>>),
     OidLine(CiscoEnt \o <<48, 1, 1, 1, 6, 1>>, "INTEGER", <<Lit("12582912000")>>) >>

generate_juniper_enterprise_mib(device_info) ==
  << OidLine(JuniperEnt \o <<2, 0>>, "STRING", <<Lit(device_info.model)>>),
     OidLine(JuniperEnt \o <<3, 0>>, "STRING", <<Lit("SNXXXXXXXX")>>) >>

\* The header comment block of generate_walk_file.
HeaderLines(vendor, device_info, hostname) ==
  << CommentLine(<<Lit(" SNMP Walk File for "), Title(vendor), Lit(" "), Lit(device_info.model)>>),
     CommentLine(<<Lit(" Generated by NiAC-Go walk file generator")>>),
     CommentLine(<<Lit(" Date: "), Stamp>>),
     CommentLine(<<Lit(" Hostname: ")>> \o hostname),
     CommentLine(<<>>) >>

\* Mutant of VendorLines: every vendor but juniper gets the cisco rows.
VendorLines_CiscoDefault(vendor, device_info) ==
  IF vendor = "juniper" THEN generate_juniper_enterprise_mib(device_info)
  ELSE generate_cisco_enterprise_mib(device_info)

\* if vendor == 'cisco': ... elif vendor == 'juniper': ...
VendorLines(vendor, device_info) ==
  IF vendor = "cisco" THEN generate_cisco_enterprise_mib(device_info)
  ELSE IF vendor = "juniper" THEN generate_juniper_enterprise_mib(device_info)
  ELSE <<>>

\* Mutant of AssembleLines: no blank line between the system and the
\* interface section.
AssembleLines_NoSeparator(vendor, device_info, hostname) ==
  HeaderLines(vendor, device_info, hostname)
    \o generate_system_mib(device_info, hostname)
    \o generate_interface_mib(device_info)
    \o << <<>> >>
    \o VendorLines(vendor, device_info)

\* The value of `lines` when generate_walk_file reaches its file write.
AssembleLines(vendor, device_info, hostname) ==
  HeaderLines(vendor, device_info, hostname)
    \o generate_system_mib(device_info, hostname)
    \o << <<>> >>
    \o generate_interface_mib(device_info)
    \o << <<>> >>
    \o VendorLines(vendor, device_info)

\* '\n'.join(lines): the entries a..b of ls with one line break between
\* neighbours (split in halves to keep the evaluation shallow).
RECURSIVE JoinRange(_, _, _)
JoinRange(ls, a, b) ==
  IF a > b THEN <<>>
  ELSE IF a = b THEN ls[a]
  ELSE LET m == (a + b) \div 2
       IN  JoinRange(ls, a, m) \o <<NL>> \o JoinRange(ls, m + 1, b)

\* Mutant of JoinLines: ''.join(lines), the entries run together.
RECURSIVE ConcatRange(_, _, _)
ConcatRange(ls, a, b) ==
  IF a > b THEN <<>>
  ELSE IF a = b THEN ls[a]
  ELSE LET m == (a + b) \div 2
       IN  ConcatRange(ls, a, m) \o ConcatRange(ls, m + 1, b)

JoinLines_NoSeparator(ls) == ConcatRange(ls, 1, Len(ls))

JoinLines(ls) == JoinRange(ls, 1, Len(ls))

\* ------------------------------------------------------------------- state

VARIABLES
  args,         \* argparse namespace: list, vendor, model, output, hostname
  templates,    \* the module global DEVICE_TEMPLATES
  pc,           \* position of the run
  device_info,  \* the descriptor in hand (<<>> before the lookup)
  lines,        \* the local `lines` of the running generator
  i,            \* loop variable of generate_interface_mib
  total_ifs,    \* local of generate_interface_mib
  stdout,       \* what was printed, in order
  rc,           \* process exit status (-1 while running)
  fault,        \* the exception that left main() unhandled, or "none"
  file,         \* the output path: [exists, content]
  fsops         \* file-system calls made on the output path, in order

vars == <<args, templates, pc, device_info, lines, i, total_ifs, stdout, rc, fault, file, fsops>>

\* ------------------------------------------------------------------ inputs

None == [set |-> FALSE, val |-> ""]
Arg(v) == [set |-> TRUE, val |-> v]

\* Python truthiness of an optional str argument: None and '' are falsy.
Truthy(a) == a.set /\ a.val # ""

VendorKeys == {DEVICE_TEMPLATES[k].key : k \in 1..Len(DEVICE_TEMPLATES)}
ModelKeys ==
  UNION { {DEVICE_TEMPLATES[k].val[m].key : m \in 1..Len(DEVICE_TEMPLATES[k].val)} :
          k \in 1..Len(DEVICE_TEMPLATES) }

VendorArgs == {None, Arg("")} \cup {Arg(v) : v \in VendorKeys \cup {"acme", "Cisco"}}
ModelArgs == {None, Arg("")} \cup {Arg(m) : m \in ModelKeys \cup {"x1", "C3850-48P"}}
OutputArgs == {None, Arg(""), Arg("out.walk")}

\* --hostname: the default, an empty string, and a value holding a line break.
Hostnames == { <<Lit("niac-device-01")>>, <<>>, <<Lit("sw"), NL, Lit("01")>> }

Absent == [exists |-> FALSE, content |-> <<>>]
Existing == [exists |-> TRUE, content |-> <<Lit("previous content"), NL>>]

CatalogDescriptors ==
  UNION { {DEVICE_TEMPLATES[k].val[m].val : m \in 1..Len(DEVICE_TEMPLATES[k].val)} :
          k \in 1..Len(DEVICE_TEMPLATES) }

UplinkNames == {"up-a", "up-b"}
UplinkLists == UNION { [1..n -> UplinkNames] : n \in 0..MaxUplinks }

GeneratedDescriptors ==
  { [model |-> "M", description |-> "D", ports |-> p, stacking |-> FALSE,
     poe |-> FALSE, uplinks |-> u] : p \in 1..MaxPorts, u \in UplinkLists }
  \cup
  { [model |-> "M", description |-> "D", ports |-> p, stacking |-> FALSE,
     poe |-> FALSE] : p \in 1..MaxPorts }

\* --------------------------------------------------------- the run of main

Init ==
  /\ args \in [list : BOOLEAN, vendor : VendorArgs, model : ModelArgs,
               output : OutputArgs, hostname : Hostnames]
  /\ templates = DEVICE_TEMPLATES
  /\ pc = "main"
  /\ device_info = <<>>
  /\ lines = <<>>
  /\ i = 0
  /\ total_ifs = 0
  /\ stdout = <<>>
  /\ rc = -1
  /\ fault = "none"
  /\ file \in {Absent, Existing}
  /\ fsops = <<>>

\* list_devices(): one row per model (the sorted order of the rows is not modelled).
ListRows(t) ==
  UNION { { [vendor |-> t[k].key, model |-> t[k].val[m].key,
             name |-> t[k].val[m].val.model, ports |-> t[k].val[m].val.ports] :
              m \in 1..Len(t[k].val) } :
          k \in 1..Len(t) }

\* Mutant of ArgsMissing: the output path is not required.
ArgsMissing_IgnoresOutput == ~Truthy(args.vendor) \/ ~Truthy(args.model)

ArgsMissing == ~Truthy(args.vendor) \/ ~Truthy(args.model) \/ ~Truthy(args.output)

\* if args.list: list_devices(); return 0
MainList ==
  /\ pc = "main"
  /\ args.list
  /\ stdout' = stdout \o << [msg |-> "list", rows |-> ListRows(templates)] >>
  /\ rc' = 0
  /\ pc' = "exit"
  /\ UNCHANGED <<args, templates, device_info, lines, i, total_ifs, fault, file, fsops>>

\* if not args.vendor or not args.model or not args.output: print_help(); return 1
MainUsage ==
  /\ pc = "main"
  /\ ~args.list
  /\ ArgsMissing
  /\ stdout' = stdout \o << [msg |-> "help"] >>
  /\ rc' = 1
  /\ pc' = "exit"
  /\ UNCHANGED <<args, templates, device_info, lines, i, total_ifs, fault, file, fsops>>

CallGwf == pc = "main" /\ ~args.list /\ ~ArgsMissing

\* Mutant of GwfUnknownVendor: the error is printed without the vendor list.
GwfUnknownVendor_NoList ==
  /\ CallGwf
  /\ ~Has(templates, args.vendor.val)
  /\ stdout' = stdout \o
       << [msg |-> "Error: Unknown vendor", vendor |-> args.vendor.val] >>
  /\ rc' = 1
  /\ pc' = "exit"
  /\ UNCHANGED <<args, templates, device_info, lines, i, total_ifs, fault, file, fsops>>

\* generate_walk_file: vendor not in DEVICE_TEMPLATES -> return False -> main returns 1
GwfUnknownVendor ==
  /\ CallGwf
  /\ ~Has(templates, args.vendor.val)
  /\ stdout' = stdout \o
       << [msg |-> "Error: Unknown vendor", vendor |-> args.vendor.val],
          [msg |-> "Available vendors", keys |-> Keys(templates)] >>
  /\ rc' = 1
  /\ pc' = "exit"
  /\ UNCHANGED <<args, templates, device_info, lines, i, total_ifs, fault, file, fsops>>

\* The model keys of every vendor of t, vendor after vendor.
RECURSIVE AllModelKeys(_, _)
AllModelKeys(t, k) ==
  IF k = 0 THEN <<>> ELSE AllModelKeys(t, k - 1) \o Keys(t[k].val)

\* Mutant of GwfUnknownModel: the models of all vendors are listed.
GwfUnknownModel_AllVendors ==
  /\ CallGwf
  /\ Has(templates, args.vendor.val)
  /\ ~Has(Get(templates, args.vendor.val), args.model.val)
  /\ stdout' = stdout \o
       << [msg |-> "Error: Unknown model", model |-> args.model.val,
           vendor |-> args.vendor.val],
          [msg |-> "Available models",
           keys |-> AllModelKeys(templates, Len(templates))] >>
  /\ rc' = 1
  /\ pc' = "exit"
  /\ UNCHANGED <<args, templates, device_info, lines, i, total_ifs, fault, file, fsops>>

\* Mutant of GwfUnknownModel: the output file is opened before the model is
\* looked up.
GwfUnknownModel_OpensFirst ==
  /\ CallGwf
  /\ Has(templates, args.vendor.val)
  /\ ~Has(Get(templates, args.vendor.val), args.model.val)
  /\ file' = [exists |-> TRUE, content |-> <<>>]
  /\ fsops' = Append(fsops, "open")
  /\ stdout' = stdout \o
       << [msg |-> "Error: Unknown model", model |-> args.model.val,
           vendor |-> args.vendor.val],
          [msg |-> "Available models",
           keys |-> Keys(Get(templates, args.vendor.val))] >>
  /\ rc' = 1
  /\ pc' = "exit"
  /\ UNCHANGED <<args, templates, device_info, lines, i, total_ifs, fault>>

\* generate_walk_file: model not in DEVICE_TEMPLATES[vendor] -> return False
GwfUnknownModel ==
  /\ CallGwf
  /\ Has(templates, args.vendor.val)
  /\ ~Has(Get(templates, args.vendor.val), args.model.val)
  /\ stdout' = stdout \o
       << [msg |-> "Error: Unknown model", model |-> args.model.val,
           vendor |-> args.vendor.val],
          [msg |-> "Available models",
           keys |-> Keys(Get(templates, args.vendor.val))] >>
  /\ rc' = 1
  /\ pc' = "exit"
  /\ UNCHANGED <<args, templates, device_info, lines, i, total_ifs, fault, file, fsops>>

\* generate_walk_file from the lookup to the point right before open()
GwfAssemble ==
  /\ CallGwf
  /\ Has(templates, args.vendor.val)
  /\ Has(Get(templates, args.vendor.val), args.model.val)
  /\ LET d == Get(Get(templates, args.vendor.val), args.model.val)
     IN  /\ device_info' = d
         /\ stdout' = stdout \o
              << [msg |-> "Generating walk file", vendor |-> args.vendor.val,
                  model |-> args.model.val],
                 [msg |-> "Model", name |-> d.model],
                 [msg |-> "Ports", ports |-> d.ports],
                 [msg |-> "Stacking", flag |-> d.stacking],
                 [msg |-> "PoE", flag |-> d.poe] >>
         /\ lines' = AssembleLines(args.vendor.val, d, args.hostname)
  /\ pc' = "open"
  /\ UNCHANGED <<args, templates, i, total_ifs, rc, fault, file, fsops>>

\* An exception nobody catches: the interpreter writes a traceback and exits 1.
Unhandled(exc) ==
  /\ fault' = exc
  /\ rc' = 1
  /\ pc' = "exit"

\* open(output_file, 'w') succeeds: the file is created or truncated
OpenOk ==
  /\ pc = "open"
  /\ file' = [exists |-> TRUE, content |-> <<>>]
  /\ fsops' = Append(fsops, "open")
  /\ pc' = "write"
  /\ UNCHANGED <<args, templates, device_info, lines, i, total_ifs, stdout, rc, fault>>

\* open(output_file, 'w') raises OSError (no such directory, no permission, ...)
OpenFail ==
  /\ pc = "open"
  /\ fsops' = Append(fsops, "open")
  /\ Unhandled("OSError")
  /\ UNCHANGED <<args, templates, device_info, lines, i, total_ifs, stdout, file>>

\* f.write('\n'.join(lines))
WriteJoin ==
  /\ pc = "write"
  /\ file' = [file EXCEPT !.content = @ \o JoinLines(lines)]
  /\ fsops' = Append(fsops, "write")
  /\ pc' = "write_nl"
  /\ UNCHANGED <<args, templates, device_info, lines, i, total_ifs, stdout, rc, fault>>

\* f.write('\n'), leaving the with block, the summary, return True -> main returns 0
WriteNewline ==
  /\ pc = "write_nl"
  /\ file' = [file EXCEPT !.content = @ \o <<NL>>]
  /\ fsops' = Append(fsops, "write")
  /\ stdout' = stdout \o
       << [msg |-> "Walk file generated", output |-> args.output.val],
          [msg |-> "Total OIDs",
           n |-> Cardinality({k \in 1..Len(lines) :
                                lines[k] # <<>> /\ lines[k][1] # Lit("#")})] >>
  /\ rc' = 0
  /\ pc' = "exit"
  /\ UNCHANGED <<args, templates, device_info, lines, i, total_ifs, fault>>

\* A write (or the flush at close) raises OSError: what was written so far stays
WriteFail ==
  /\ pc \in {"write", "write_nl"}
  /\ fsops' = Append(fsops, "write")
  /\ Unhandled("OSError")
  /\ UNCHANGED <<args, templates, device_info, lines, i, total_ifs, stdout, file>>

Next ==
  \/ MainList
  \/ MainUsage
  \/ GwfUnknownVendor
  \/ GwfUnknownModel
  \/ GwfAssemble
  \/ OpenOk
  \/ OpenFail
  \/ WriteJoin
  \/ WriteNewline
  \/ WriteFail

Spec == Init /\ [][Next]_vars

\* ------------------------------------- generate_interface_mib, step by step

InitIf ==
  /\ device_info \in CatalogDescriptors \cup GeneratedDescriptors
  /\ args = [list |-> FALSE, vendor |-> None, model |-> None, output |-> None,
             hostname |-> <<>>]
  /\ templates = DEVICE_TEMPLATES
  /\ pc = "if_start"
  /\ lines = <<>>
  /\ i = 0
  /\ total_ifs = 0
  /\ stdout = <<>>
  /\ rc = -1
  /\ fault = "none"
  /\ file = Absent
  /\ fsops = <<>>

\* lines = []; total_ifs = ...; lines.append(ifNumber)
IfStart ==
  /\ pc = "if_start"
  /\ total_ifs' = TotalIfs(device_info)
  /\ lines' = <<IfNumberLine(TotalIfs(device_info))>>
  /\ i' = 1
  /\ pc' = "if_loop"
  /\ UNCHANGED <<args, templates, device_info, stdout, rc, fault, file, fsops>>

\* one pass of: for i in range(1, total_ifs + 1)
IfLoop ==
  /\ pc = "if_loop"
  /\ i <= total_ifs
  /\ lines' = lines \o IfRows(device_info, i)
  /\ i' = i + 1
  /\ UNCHANGED <<args, templates, pc, device_info, total_ifs, stdout, rc, fault, file, fsops>>

\* return lines
IfReturn ==
  /\ pc = "if_loop"
  /\ i > total_ifs
  /\ pc' = "if_done"
  /\ UNCHANGED <<args, templates, device_info, lines, i, total_ifs, stdout, rc, fault, file, fsops>>

NextIf ==
  \/ IfStart
  \/ IfLoop
  \/ IfReturn

SpecIf == InitIf /\ [][NextIf]_vars

\* The loop computes what the whole-function operator computes.
IfLoopAgrees == pc = "if_done" => lines = generate_interface_mib(device_info)

\* ------------------------------------------------- reading generated lines

\* The rendered form "<OID> = <Tag>: <value>" of a row.
Row(oid, tag, value) == <<Oid(oid), Lit(" = "), Lit(tag), Lit(": ")>> \o value

IsBlank(l) == l = <<>>
IsComment(l) == Len(l) >= 1 /\ l[1] = Lit("#")
IsOidLine(l) ==
  /\ Len(l) >= 4
  /\ l[1].t = "oid"
  /\ l[2] = Lit(" = ")
  /\ l[3].t = "lit"
  /\ l[4] = Lit(": ")

\* l is an OID line whose OID lies under prefix p.
IsUnder(l, p) ==
  /\ IsOidLine(l)
  /\ Len(l[1].o) >= Len(p)
  /\ SubSeq(l[1].o, 1, Len(p)) = p

\* Exactly one line of ls carries this OID, and it is Row(oid, tag, value).
OneRow(ls, oid, tag, value) ==
  /\ Cardinality({k \in 1..Len(ls) : Len(ls[k]) >= 1 /\ ls[k][1] = Oid(oid)}) = 1
  /\ \E k \in 1..Len(ls) : ls[k] = Row(oid, tag, value)

\* The uplink list of a descriptor, empty when it has none.
UplinksOf(d) == IF "uplinks" \in DOMAIN d THEN d.uplinks ELSE <<>>

\* ------------------------------------------------------------------ claims

\* C1: generate_interface_mib returns, as first line, the ifNumber line
\* ".1.3.6.1.2.1.2.1.0 = INTEGER: total" with total = ports + len(uplinks) + 1,
\* and its ifIndex rows are exactly those of the indices 1..total, each once,
\* in ascending order, so ifNumber equals the number of indices emitted.
C1_IfNumberCountsIndices ==
  pc = "if_done" =>
    LET total == device_info.ports + Len(UplinksOf(device_info)) + 1
        idx == SelectSeq(lines, LAMBDA l : IsUnder(l, <<1, 3, 6, 1, 2, 1, 2, 2, 1, 1>>))
    IN  /\ lines[1] = Row(<<1, 3, 6, 1, 2, 1, 2, 1, 0>>, "INTEGER", <<Num(total)>>)
        /\ \A k \in 2..Len(lines) : ~IsUnder(lines[k], <<1, 3, 6, 1, 2, 1, 2, 1>>)
        /\ Len(idx) = total
        /\ \A k \in 1..Len(idx) :
             idx[k] = Row(<<1, 3, 6, 1, 2, 1, 2, 2, 1, 1, k>>, "INTEGER", <<Num(k)>>)

\* C1 witness: the generator has returned for a descriptor without uplinks.
C1_Witness ==
  /\ pc = "if_done"
  /\ "uplinks" \in DOMAIN device_info
  /\ device_info.uplinks = <<>>
  /\ device_info.ports = 2
  /\ Len(lines) = 16

\* C2: in the returned lines the role of index i follows from its range:
\* 1..ports is ifType 6 at 1000000000; ports+1..ports+len(uplinks) carries
\* the uplink names in descriptor order, ifType 6 at 10000000000; the last
\* index is Vlan1, ifType 53 at 1000000000; every index has ifOperStatus 1;
\* the ranges partition the emitted indices and exactly one index is the
\* management interface.
C2_RolesByRange ==
  pc = "if_done" =>
    LET ports == device_info.ports
        ups == UplinksOf(device_info)
        total == ports + Len(ups) + 1
        E(c, k) == <<1, 3, 6, 1, 2, 1, 2, 2, 1, c, k>>
        emitted == { l[1].o[11] : l \in { lines[k] : k \in 2..Len(lines) } }
        access(k) == /\ OneRow(lines, E(3, k), "INTEGER", <<Lit("6")>>)
                     /\ OneRow(lines, E(5, k), "Gauge32", <<Lit("1000000000")>>)
        uplink(k) == /\ OneRow(lines, E(2, k), "STRING", <<Lit(ups[k - ports])>>)
                     /\ OneRow(lines, E(3, k), "INTEGER", <<Lit("6")>>)
                     /\ OneRow(lines, E(5, k), "Gauge32", <<Lit("10000000000")>>)
        mgmt(k) ==   /\ OneRow(lines, E(2, k), "STRING", <<Lit("Vlan1")>>)
                     /\ OneRow(lines, E(3, k), "INTEGER", <<Lit("53")>>)
                     /\ OneRow(lines, E(5, k), "Gauge32", <<Lit("1000000000")>>)
    IN  /\ emitted = 1..total
        /\ \A k \in emitted : OneRow(lines, E(8, k), "INTEGER", <<Lit("1")>>)
        /\ \A k \in emitted :
             /\ (1 <= k /\ k <= ports) => access(k)
             /\ (ports + 1 <= k /\ k <= ports + Len(ups)) => uplink(k)
             /\ k = total => mgmt(k)
        /\ { k \in emitted : \E l \in 1..Len(lines) :
                               lines[l] = Row(E(3, k), "INTEGER", <<Lit("53")>>) } = {total}

\* C2 witness: the generator has returned for a descriptor with two different
\* uplinks, so the order of the uplink names shows.
C2_Witness ==
  /\ pc = "if_done"
  /\ UplinksOf(device_info) = <<"up-b", "up-a">>
  /\ device_info.ports = 1
  /\ Len(lines) = 21

\* The catalog as the claims name it, read from the literal, not from the run.
CatalogHas(v, m) == Has(DEVICE_TEMPLATES, v) /\ Has(Get(DEVICE_TEMPLATES, v), m)
CatalogEntry(v, m) == Get(Get(DEVICE_TEMPLATES, v), m)
ModelsOf(v) == { Keys(Get(DEVICE_TEMPLATES, v))[k] : k \in 1..Len(Get(DEVICE_TEMPLATES, v)) }

\* The run got past both lookups and built its line sequence.
Assembled == pc \in {"open", "write", "write_nl"} \/ (pc = "exit" /\ lines # <<>>)

\* The arguments the run was started with name all three of vendor, model, output.
AllGiven ==
  /\ args.vendor.set /\ args.vendor.val # ""
  /\ args.model.set /\ args.model.val # ""
  /\ args.output.set /\ args.output.val # ""

Min(S) == CHOOSE x \in S : \A y \in S : x <= y
Max(S) == CHOOSE x \in S : \A y \in S : y <= x

\* C3: for every catalog (vendor, model) and any hostname the assembled
\* sequence is: header comment lines (each starting with '#'), the seven
\* system lines, one blank, the interface-table lines, one blank, then the
\* vendor-enterprise lines (possibly none); so it is non-empty and its first
\* line that is neither comment nor blank is the sysDescr line carrying the
\* descriptor's description verbatim.
C3_AssembledOrder ==
  Assembled =>
    LET d == CatalogEntry(args.vendor.val, args.model.val)
        n == Len(lines)
        data == { k \in 1..n : ~IsComment(lines[k]) /\ ~IsBlank(lines[k]) }
        h == Min(data) - 1
        blanks == { k \in 1..n : IsBlank(lines[k]) }
        b1 == h + 8
        b2 == Min(blanks \ {b1})
    IN  /\ CatalogHas(args.vendor.val, args.model.val)
        /\ n > 0 /\ data # {}
        /\ h >= 1
        /\ \A k \in 1..h : IsComment(lines[k])
        /\ \A k \in 1..7 : IsUnder(lines[h + k], <<1, 3, 6, 1, 2, 1, 1, k, 0>>)
        /\ blanks = {b1, b2} /\ b1 < b2 - 1
        /\ \A k \in (b1 + 1)..(b2 - 1) : IsUnder(lines[k], <<1, 3, 6, 1, 2, 1, 2>>)
        /\ \A k \in (b2 + 1)..n : IsUnder(lines[k], <<1, 3, 6, 1, 4, 1>>)
        /\ lines[Min(data)] =
             Row(<<1, 3, 6, 1, 2, 1, 1, 1, 0>>, "STRING", <<Lit(d.description)>>)

\* C3 witness: a juniper run has assembled its lines for a hostname that
\* holds a line break.
C3_Witness ==
  /\ pc = "open"
  /\ args.vendor.val = "juniper"
  /\ args.model.val = "qfx5100-48s"
  /\ args.hostname = <<Lit("sw"), NL, Lit("01")>>
  /\ Len(lines) > 14

\* C4: a vendor key outside the catalog (any model key, also a key that
\* differs from a catalog key only in case) ends in the unknown-vendor
\* outcome: the error names the bad key, the list of known vendors is the
\* ten catalog vendors, the result is failure, nothing is left unhandled and
\* the model key plays no part.
C4_VendorNotFound ==
  ( /\ pc = "exit" /\ ~args.list /\ AllGiven
    /\ args.vendor.val \notin {"cisco", "juniper", "aruba", "extreme", "paloalto",
                               "hpe", "arista", "dell", "fortinet", "meraki"} )
  =>
    /\ Len(stdout) = 2
    /\ stdout[1] = [msg |-> "Error: Unknown vendor", vendor |-> args.vendor.val]
    /\ stdout[2].msg = "Available vendors"
    /\ Len(stdout[2].keys) = 10
    /\ { stdout[2].keys[k] : k \in 1..10 } =
         {"cisco", "juniper", "aruba", "extreme", "paloalto",
          "hpe", "arista", "dell", "fortinet", "meraki"}
    /\ rc = 1
    /\ fault = "none"

\* C4 witness: the run ended for vendor "Cisco" (wrong case) with a model key
\* that cisco does have.
C4_Witness ==
  /\ pc = "exit"
  /\ ~args.list
  /\ args.vendor = Arg("Cisco")
  /\ args.model = Arg("c3850-48p")
  /\ args.output = Arg("out.walk")

\* C5: a catalog vendor with a model key that is not one of its models ends
\* in the unknown-model outcome: the listed model keys are exactly that
\* vendor's (none of another vendor, even when the requested key is another
\* vendor's model), and the result is failure.
C5_ModelNotFound ==
  ( /\ pc = "exit" /\ ~args.list /\ AllGiven
    /\ Has(DEVICE_TEMPLATES, args.vendor.val)
    /\ args.model.val \notin ModelsOf(args.vendor.val) )
  =>
    /\ Len(stdout) = 2
    /\ stdout[1] = [msg |-> "Error: Unknown model", model |-> args.model.val,
                    vendor |-> args.vendor.val]
    /\ stdout[2].msg = "Available models"
    /\ { stdout[2].keys[k] : k \in 1..Len(stdout[2].keys) } = ModelsOf(args.vendor.val)
    /\ \A w \in VendorKeys \ {args.vendor.val} : \A k \in 1..Len(stdout[2].keys) :
         stdout[2].keys[k] \notin ModelsOf(w)
    /\ rc = 1
    /\ fault = "none"

\* C5 witness: the run ended for vendor juniper with a model key of cisco.
C5_Witness ==
  /\ pc = "exit"
  /\ ~args.list
  /\ args.vendor = Arg("juniper")
  /\ args.model = Arg("c3850-48p")
  /\ args.output = Arg("out.walk")

\* C6: every error condition (unknown vendor, unknown model, missing
\* argument, file write failure) ends the run with a reported message, a
\* non-zero exit code, no retry and no unhandled fault; in particular a
\* failing open or write after a successful lookup ends cleanly with exit 1.
C6_ErrorsEndCleanly ==
  (pc = "exit" /\ rc # 0) =>
    /\ rc = 1
    /\ fault = "none"
    /\ Len(stdout) >= 1
    /\ Len(SelectSeq(fsops, LAMBDA op : op = "open")) <= 1

\* C7: main's exit code: --list gives the listing and 0 whatever else is
\* given; otherwise a missing (absent or empty) vendor, model or output gives
\* the usage text and 1; otherwise 0 exactly when the lookup succeeds and the
\* walk file is written, and 1 when the vendor or the model is unknown.
C7_ExitCodeOrder ==
  pc = "exit" =>
    IF args.list
      THEN rc = 0 /\ Len(stdout) = 1 /\ stdout[1].msg = "list"
    ELSE IF ~AllGiven
      THEN rc = 1 /\ stdout = << [msg |-> "help"] >>
    ELSE /\ rc \in {0, 1}
         /\ rc = 0 <=> ( /\ CatalogHas(args.vendor.val, args.model.val)
                         /\ fsops = <<"open", "write", "write">>
                         /\ file.exists
                         /\ fault = "none" )
         /\ ~CatalogHas(args.vendor.val, args.model.val) => rc = 1

\* C7 witness: the run ended with --list given beside an unknown vendor and
\* no output path.
C7_Witness ==
  /\ pc = "exit"
  /\ args.list
  /\ args.vendor = Arg("acme")
  /\ args.output = None

\* ------------------------------------------------------ reading the file

NoBreak(text) == \A k \in 1..Len(text) : text[k] # NL

\* Where the lines of a text start: at 1 and after every line break that is
\* not the last piece.
LineStarts(c) ==
  IF c = <<>> THEN {}
  ELSE {1} \cup { p + 1 : p \in { k \in 1..(Len(c) - 1) : c[k] = NL } }

\* The line of c that starts at s, without its line break.
FileLine(c, s) ==
  LET brk == { p \in s..Len(c) : c[p] = NL }
  IN  SubSeq(c, s, IF brk = {} THEN Len(c) ELSE Min(brk) - 1)

WellFormedLine(l) == IsBlank(l) \/ IsComment(l) \/ IsOidLine(l)

\* Every entry a..b of ls followed by one line break.
RECURSIVE Terminated(_, _, _)
Terminated(ls, a, b) ==
  IF a > b THEN <<>>
  ELSE IF a = b THEN Append(ls[a], NL)
  ELSE LET m == (a + b) \div 2
       IN  Terminated(ls, a, m) \o Terminated(ls, m + 1, b)

\* The run wrote its walk file and returned success.
Written == pc = "exit" /\ ~args.list /\ rc = 0

\* C8 as stated: for every catalog pair the written file has one entry per
\* line, every line a comment, a blank or an OID line, and the file ends
\* with a single trailing newline with no empty line at its end, for cisco
\* and juniper and for the vendors without an enterprise section alike.
C8_SingleTrailingNewline ==
  Written =>
    LET c == file.content
        n == Len(c)
    IN  /\ \A s \in LineStarts(c) : WellFormedLine(FileLine(c, s))
        /\ n >= 2
        /\ c[n] = NL
        /\ c[n - 1] # NL

\* C8 amended: the written file is the line sequence with exactly one line
\* break after every entry and nothing else.  For a hostname without a line
\* break it has one line per entry, each a comment (starting with '#'), a
\* blank or an OID line.  It ends with a single line break for cisco and
\* juniper; for the vendors without an enterprise section the last entry is
\* the blank one, so the file ends with an empty line (two line breaks).
C8_FileShape ==
  Written =>
    LET c == file.content
        n == Len(c)
    IN  /\ file.exists
        /\ c = Terminated(lines, 1, Len(lines))
        /\ NoBreak(args.hostname) =>
             /\ Cardinality(LineStarts(c)) = Len(lines)
             /\ \A s \in LineStarts(c) : WellFormedLine(FileLine(c, s))
        /\ n >= 3
        /\ c[n] = NL
        /\ args.vendor.val \in {"cisco", "juniper"} => c[n - 1] # NL
        /\ args.vendor.val \notin {"cisco", "juniper"} => c[n - 1] = NL /\ c[n - 2] # NL

\* C8 witness: a file was written for a vendor without an enterprise section.
C8_Witness ==
  /\ Written
  /\ args.vendor = Arg("aruba")
  /\ args.hostname = <<Lit("niac-device-01")>>
  /\ Len(file.content) > 0

\* C9: the vendor-enterprise section follows from the vendor key alone: the
\* eight fixed rows for cisco (the first carrying descriptor.model), two rows
\* for juniper (chassis description = descriptor.model, placeholder serial),
\* nothing and no error for every other catalog vendor, whose sequence then
\* ends with the blank line after the interface table.
C9_EnterpriseByVendor ==
  Assembled =>
    LET d == CatalogEntry(args.vendor.val, args.model.val)
        n == Len(lines)
        last == d.ports + Len(d.uplinks) + 1
        sect == SubSeq(lines, Max({ k \in 1..n : IsBlank(lines[k]) }) + 1, n)
        C == <<1, 3, 6, 1, 4, 1, 9, 9>>
        J == <<1, 3, 6, 1, 4, 1, 2636, 3, 1>>
    IN  /\ args.vendor.val = "cisco" =>
              sect = << Row(C \o <<13, 1, 3, 1, 3, 1>>, "STRING", <<Lit(d.model)>>),
                        Row(C \o <<13, 1, 3, 1, 5, 1>>, "STRING", <<Lit("Chassis")>>),
                        Row(C \o <<13, 1, 3, 1, 11, 1>>, "STRING", <<Lit("FOCCXXXXXXX")>>),
                        Row(C \o <<109, 1, 1, 1, 1, 3, 1>>, "Gauge32", <<Lit("5")>>),
                        Row(C \o <<109, 1, 1, 1, 1, 4, 1>>, "Gauge32", <<Lit("8")>>),
                        Row(C \o <<109, 1, 1, 1, 1, 5, 1>>, "Gauge32", <<Lit("10")>>),
                        Row(C \o <<48, 1, 1, 1, 5, 1>>, "INTEGER", <<Lit("4194304000")>>),
                        Row(C \o <<48, 1, 1, 1, 6, 1>>, "INTEGER", <<Lit("12582912000")>>) >>
        /\ args.vendor.val = "juniper" =>
              sect = << Row(J \o <<2, 0>>, "STRING", <<Lit(d.model)>>),
                        Row(J \o <<3, 0>>, "STRING", <<Lit("SNXXXXXXXX")>>) >>
        /\ args.vendor.val \in {"aruba", "extreme", "paloalto", "hpe", "arista",
                                "dell", "fortinet", "meraki"} =>
              /\ sect = <<>>
              /\ IsBlank(lines[n])
              /\ lines[n - 1] = Row(<<1, 3, 6, 1, 2, 1, 2, 2, 1, 8, last>>, "INTEGER", <<Lit("1")>>)
              /\ \A k \in 1..Len(stdout) :
                   stdout[k].msg \notin {"Error: Unknown vendor", "Error: Unknown model"}
              /\ (pc = "exit" /\ fault = "none") => rc = 0

\* C9 witness: a meraki run wrote its file and ended.
C9_Witness ==
  /\ pc = "exit"
  /\ fault = "none"
  /\ args.vendor = Arg("meraki")
  /\ args.model = Arg("ms425-48")
  /\ file.exists /\ file.content # <<>>
  /\ fsops = <<"open", "write", "write">>

\* C10: the output path is opened and written only on the success path: no
\* step of a --list, missing-argument, unknown-vendor or unknown-model run
\* touches it, no step changes the catalog, and the file is opened once,
\* after both lookups have succeeded and all lines are assembled.
C10_WriteOnlyAfterLookup ==
  [][ /\ templates' = templates
      /\ (file' # file \/ fsops' # fsops) =>
           /\ ~args.list
           /\ AllGiven
           /\ CatalogHas(args.vendor.val, args.model.val)
           /\ lines = AssembleLines(args.vendor.val,
                                    CatalogEntry(args.vendor.val, args.model.val),
                                    args.hostname)
           /\ lines' = lines
           /\ Len(SelectSeq(fsops', LAMBDA op : op = "open")) = 1
           /\ fsops'[1] = "open" ]_vars

\* C10 witness: an unknown-model run ended and the file that existed before
\* it is as it was.
C10_Witness ==
  /\ pc = "exit"
  /\ ~args.list
  /\ args.vendor = Arg("cisco")
  /\ args.model = Arg("x1")
  /\ args.output = Arg("out.walk")
  /\ file = Existing
  /\ fsops = <<>>
=============================================================================
